---- MODULE Spec2Model ----
(***************************************************************************)
(* A model of EnergyTwinMatcher (src/ml_model.py): the feature encoder     *)
(* (preprocess_data), fit, the neighbour query (find_similar_homes) and    *)
(* the usage prediction (predict_energy_usage).                            *)
(*                                                                         *)
(* Representation.  A Python dict is a function whose DOMAIN is the set of *)
(* keys the dict holds.  A DataFrame is a record [columns, rows]: every    *)
(* row is a function over the same columns.  A float is a fixed-point      *)
(* integer: the integer n stands for n / Scale (a similarity for           *)
(* n / SimScale).  A missing numeric cell is NaN, a numeric cell holding   *)
(* text that does not coerce is Uncoercible, a missing text cell is NaNStr.*)
(***************************************************************************)
EXTENDS Integers, Sequences, FiniteSets, TLC

\* ---------------------------------------------------------------- bounds
MaxCorpus == 3
MaxK == 4
MaxTwins == 3
MaxRows == 2

\* ------------------------------------------------------- representation
Scale == 100
SimScale == Scale * 1000
NaN == -1
Uncoercible == -2
None == -3
NaNStr == "<NaN>"
\* the float NaN, below every float the model computes
FNaN == NaN * SimScale

FP(x) == x * Scale

RECURSIVE SumSeq(_)
SumSeq(s) == IF s = <<>> THEN 0 ELSE Head(s) + SumSeq(Tail(s))

Min(a, b) == IF a <= b THEN a ELSE b

\* floor of the square root, by bisection on [lo, hi]
RECURSIVE SqrtBetween(_, _, _)
SqrtBetween(x, lo, hi) ==
    IF lo >= hi THEN lo
    ELSE LET mid == (lo + hi + 1) \div 2
         IN IF mid * mid <= x THEN SqrtBetween(x, mid, hi)
                              ELSE SqrtBetween(x, lo, mid - 1)

Sqrt(x) == SqrtBetween(x, 0, Min(x, 46340))

RECURSIVE Gcd(_, _)
Gcd(a, b) == IF b = 0 THEN a ELSE Gcd(b, a % b)

\* ascending insertion sort of a sequence of integers
RECURSIVE Insert(_, _)
Insert(x, s) ==
    IF s = <<>> THEN <<x>>
    ELSE IF x <= Head(s) THEN <<x>> \o s
         ELSE <<Head(s)>> \o Insert(x, Tail(s))

RECURSIVE SortInts(_)
SortInts(s) == IF s = <<>> THEN <<>> ELSE Insert(Head(s), SortInts(Tail(s)))

\* ------------------------------------------------------ EnergyTwinMatcher
numeric_features == <<"in.sqft..ft2", "in.bedrooms", "in.occupants">>

categorical_features ==
    <<"in.geometry_building_type_acs", "in.heating_fuel",
      "in.hvac_cooling_type", "in.ashrae_iecc_climate_zone_2004">>

Range(s) == {s[i] : i \in DOMAIN s}

NumericColumns == Range(numeric_features) \cup {"monthly_kwh", "monthly_usage", "has_solar_panel"}

\* the strings of the model in Python's (code point) order, which is the
\* order numpy sorts them in
StrOrder ==
    <<"Central AC", "Electricity", "Mixed-Humid", "Natural Gas", "No",
      "Propane", "Single-Family Detached", "Unknown", "Yes">>

StrRank(s) == CHOOSE i \in DOMAIN StrOrder : StrOrder[i] = s

\* pd.DataFrame(list of dicts): the columns are the union of the keys, a
\* key a row lacks becomes a missing cell
DataFrame(list) ==
    LET cols == UNION {DOMAIN list[i] : i \in DOMAIN list}
    IN [columns |-> cols,
        rows |-> [i \in DOMAIN list |->
                    [c \in cols |->
                        IF c \in DOMAIN list[i] THEN list[i][c]
                        ELSE IF c \in NumericColumns THEN NaN ELSE NaNStr]]]

\* homes_data is a list of dicts or a DataFrame
IsList(homes_data) == homes_data.kind = "list"
AsFrame(homes_data) ==
    IF IsList(homes_data) THEN DataFrame(homes_data.rows) ELSE homes_data.frame
Length(homes_data) ==
    IF IsList(homes_data) THEN Len(homes_data.rows) ELSE Len(homes_data.frame.rows)

\* ---------------------------------------------------- preprocess_data
\* pd.to_numeric(errors='coerce'), as a float
to_numeric(v) == IF v \in {NaN, Uncoercible, None} THEN FNaN ELSE FP(v)

\* Series.median(): the median of the cells that are not missing, NaN if
\* there is none
median(vals) ==
    LET present == SortInts(SelectSeq(vals, LAMBDA v : v # FNaN))
        n == Len(present)
    IN IF n = 0 THEN FNaN
       ELSE IF n % 2 = 1 THEN present[(n + 1) \div 2]
       ELSE (present[n \div 2] + present[n \div 2 + 1]) \div 2

fillna(vals, value) == [i \in DOMAIN vals |-> IF vals[i] = FNaN THEN value ELSE vals[i]]

\* lines 47-57: one numeric column, coerced and imputed.  fillna(...,
\* inplace=True) on df[col] writes through to df (pandas without
\* copy-on-write).  At transform time the fill value is the median of the
\* frame being transformed (line 57), not a value kept from fit.
NumericColumn(df, col, fit) ==
    LET vals == [i \in DOMAIN df.rows |-> to_numeric(df.rows[i][col])]
        m == median(vals)
    IN IF fit
       THEN fillna(vals, IF m = FNaN
                         THEN (IF col = "in.sqft..ft2" THEN FP(1500) ELSE FP(2))
                         ELSE m)
       ELSE fillna(vals, m)

\* line 62: fillna('Unknown').astype(str)
StrColumn(df, col) ==
    [i \in DOMAIN df.rows |->
        IF df.rows[i][col] = NaNStr THEN "Unknown" ELSE df.rows[i][col]]

\* LabelEncoder.fit: classes_ are the distinct values, sorted
LabelEncoderFit(strs) ==
    LET S == Range(strs)
    IN [i \in 1..Cardinality(S) |->
          CHOOSE s \in S : Cardinality({t \in S : StrRank(t) < StrRank(s)}) = i - 1]

\* LabelEncoder.transform of one value: its position in classes_
LabelCode(classes, s) == (CHOOSE i \in DOMAIN classes : classes[i] = s) - 1

\* a value that is not in the vocabulary gets a code of its own
EncodedColumn_NewCode(df, col, fit, encoders) ==
    LET strs == StrColumn(df, col)
        Code(classes, s) ==
            IF s \in Range(classes) THEN LabelCode(classes, s) ELSE Len(classes)
    IN IF fit
       THEN [i \in DOMAIN strs |-> LabelCode(LabelEncoderFit(strs), strs[i])]
       ELSE IF col \in DOMAIN encoders
            THEN [i \in DOMAIN strs |-> Code(encoders[col], strs[i])]
            ELSE [i \in DOMAIN strs |-> 0]

\* lines 64-76: the encoded column
EncodedColumn(df, col, fit, encoders) ==
    LET strs == StrColumn(df, col)
    IN IF fit
       THEN [i \in DOMAIN strs |-> LabelCode(LabelEncoderFit(strs), strs[i])]
       ELSE IF col \in DOMAIN encoders
               /\ \A i \in DOMAIN strs : strs[i] \in Range(encoders[col])
            THEN [i \in DOMAIN strs |-> LabelCode(encoders[col], strs[i])]
            ELSE [i \in DOMAIN strs |-> 0]

\* lines 64-66: fit replaces the encoder of every categorical column of df
FittedEncoders(df, encoders) ==
    LET cols == Range(categorical_features) \cap df.columns
    IN [c \in DOMAIN encoders \cup cols |->
          IF c \in cols THEN LabelEncoderFit(StrColumn(df, c)) ELSE encoders[c]]

\* str.lower() of the strings of the model
Lower(str) == IF str = "Yes" THEN "yes" ELSE IF str = "No" THEN "no" ELSE str

\* lines 79-84: astype(int) raises on a missing cell
SolarRaises(df) ==
    /\ "has_solar_panel" \in df.columns
    /\ \E i \in DOMAIN df.rows : df.rows[i]["has_solar_panel"] = NaN

SolarColumn(df) ==
    IF "has_solar_panel" \in df.columns
    THEN [i \in DOMAIN df.rows |-> df.rows[i]["has_solar_panel"]]
    ELSE IF "in.has_pv" \in df.columns
    THEN [i \in DOMAIN df.rows |-> IF df.rows[i]["in.has_pv"] = "Yes" THEN 1 ELSE 0]
    ELSE [i \in DOMAIN df.rows |-> 0]

\* lines 87-95: the feature matrix, one sequence of floats per row
Features(df, fit, encoders) ==
    LET nums == SelectSeq(numeric_features, LAMBDA c : c \in df.columns)
        cats == SelectSeq(categorical_features, LAMBDA c : c \in df.columns)
        numcol == [j \in DOMAIN nums |-> NumericColumn(df, nums[j], fit)]
        catcol == [j \in DOMAIN cats |-> EncodedColumn(df, cats[j], fit, encoders)]
        solar == SolarColumn(df)
    IN [i \in DOMAIN df.rows |->
          [j \in DOMAIN nums |-> numcol[j][i]]
          \o [j \in DOMAIN cats |-> FP(catcol[j][i])]
          \o <<FP(solar[i])>>]

NFeatures(df) ==
    Cardinality(Range(numeric_features) \cap df.columns)
    + Cardinality(Range(categorical_features) \cap df.columns) + 1

\* StandardScaler.fit: per-column mean and standard deviation, a zero
\* deviation replaced by 1
ScalerFit(X, d) ==
    LET n == Len(X)
        mean == [j \in 1..d |-> SumSeq([i \in 1..n |-> X[i][j]]) \div n]
        var == [j \in 1..d |->
                  SumSeq([i \in 1..n |-> (X[i][j] - mean[j]) * (X[i][j] - mean[j])]) \div n]
    IN [fitted |-> TRUE,
        n_features_in |-> d,
        mean |-> mean,
        scale |-> [j \in 1..d |-> IF Sqrt(var[j]) = 0 THEN FP(1) ELSE Sqrt(var[j])]]

\* StandardScaler.transform of one row: a missing cell stays missing
ScalerTransformRow(sc, row) ==
    [j \in DOMAIN row |->
        IF row[j] = FNaN THEN FNaN
        ELSE ((row[j] - sc.mean[j]) * Scale) \div sc.scale[j]]

\* a scaler that comes with statistics
NewScaler_Fitted ==
    [fitted |-> TRUE, n_features_in |-> 8,
     mean |-> [j \in 1..8 |-> 0], scale |-> [j \in 1..8 |-> FP(1)]]

\* StandardScaler(): no statistics yet, transform raises NotFittedError
NewScaler == [fitted |-> FALSE, n_features_in |-> 0, mean |-> <<>>, scale |-> <<>>]

\* preprocess_data(df, fit): what it raises (or "ok"), the width of the
\* feature matrix it assembles (line 95), the scaled features it returns,
\* and the encoder state it leaves behind
preprocess_data(df, fit, encoders, sc) ==
    LET le == IF fit THEN FittedEncoders(df, encoders) ELSE encoders
        X == Features(df, fit, encoders)
        d == NFeatures(df)
    IN IF SolarRaises(df)
       THEN [raised |-> "ValueError", label_encoders |-> le, scaler |-> sc,
             width |-> 0, features |-> <<>>]
       ELSE IF fit
       THEN IF Len(df.rows) = 0
            THEN [raised |-> "ValueError", label_encoders |-> le, scaler |-> sc,
                  width |-> d, features |-> <<>>]
            ELSE LET fitted == ScalerFit(X, d)
                 IN [raised |-> "ok", label_encoders |-> le, scaler |-> fitted,
                     width |-> d,
                     features |-> [i \in DOMAIN X |-> ScalerTransformRow(fitted, X[i])]]
       ELSE IF ~sc.fitted
       THEN [raised |-> "NotFittedError", label_encoders |-> le, scaler |-> sc,
             width |-> d, features |-> <<>>]
       ELSE IF d # sc.n_features_in \/ Len(df.rows) = 0
       THEN [raised |-> "ValueError", label_encoders |-> le, scaler |-> sc,
             width |-> d, features |-> <<>>]
       ELSE [raised |-> "ok", label_encoders |-> le, scaler |-> sc,
             width |-> d,
             features |-> [i \in DOMAIN X |-> ScalerTransformRow(sc, X[i])]]

\* ------------------------------------------------------------------ fit
NoModel == [fitted |-> FALSE, n_neighbors |-> 0, fit_X |-> <<>>]

\* an empty corpus is skipped
fit_SkipEmpty(homes_data, encoders, sc, m) ==
    LET df == AsFrame(homes_data)
        pre == preprocess_data(df, TRUE, encoders, sc)
    IN IF Len(df.rows) = 0
       THEN [raised |-> "ok", label_encoders |-> encoders, scaler |-> sc, model |-> m]
       ELSE IF pre.raised # "ok"
       THEN [raised |-> pre.raised, label_encoders |-> pre.label_encoders,
             scaler |-> pre.scaler, model |-> m]
       ELSE [raised |-> "ok", label_encoders |-> pre.label_encoders,
             scaler |-> pre.scaler,
             model |-> [fitted |-> TRUE,
                        n_neighbors |-> Min(50, Len(df.rows)),
                        fit_X |-> pre.features]]

\* fit(homes_data): the matcher state it leaves, and what it raised
fit(homes_data, encoders, sc, m) ==
    LET df == AsFrame(homes_data)
        pre == preprocess_data(df, TRUE, encoders, sc)
    IN IF pre.raised # "ok"
       THEN [raised |-> pre.raised, label_encoders |-> pre.label_encoders,
             scaler |-> pre.scaler, model |-> m]
       ELSE [raised |-> "ok", label_encoders |-> pre.label_encoders,
             scaler |-> pre.scaler,
             model |-> [fitted |-> TRUE,
                        n_neighbors |-> Min(50, Len(df.rows)),
                        fit_X |-> pre.features]]

\* --------------------------------------------------- find_similar_homes
\* the Euclidean distance of two rows
Distance(x, y) ==
    Sqrt(SumSeq([j \in DOMAIN x |-> (x[j] - y[j]) * (x[j] - y[j])]))

Distances(m, x) == [i \in DOMAIN m.fit_X |-> Distance(x, m.fit_X[i])]

\* the first k rows in corpus order
NeighborOrders_CorpusOrder(dist, k) == {[a \in 1..k |-> a]}

\* NearestNeighbors.kneighbors: the orders it may return the k nearest
\* rows in, ascending by distance; rows at one distance come in any order
NeighborOrders(dist, k) ==
    {s \in [1..k -> DOMAIN dist] :
        /\ \A a, b \in 1..k : a < b => s[a] # s[b] /\ dist[s[a]] <= dist[s[b]]
        /\ \A i \in DOMAIN dist :
              (\A a \in 1..k : s[a] # i) => \A a \in 1..k : dist[s[a]] <= dist[i]}

\* n_neighbors = 0 is answered with no neighbour
KneighborsRaises_AcceptsZero(m, x, k) ==
    \/ \E j \in DOMAIN x : x[j] = FNaN
    \/ k > Len(m.fit_X)

\* kneighbors raises ValueError: "Expected n_neighbors > 0", a missing
\* value in the query, or more neighbours asked than rows fitted
KneighborsRaises(m, x, k) ==
    \/ k <= 0
    \/ \E j \in DOMAIN x : x[j] = FNaN
    \/ k > Len(m.fit_X)

\* 1 - d
similarity_Linear(distance) == SimScale - distance * (SimScale \div Scale)

\* line 150
similarity(distance) == (SimScale * Scale) \div (Scale + distance)

SetItem(home, key, value) ==
    [c \in DOMAIN home \cup {key} |-> IF c = key THEN value ELSE home[c]]

\* line 156 without .copy(): line 159 writes the score into the caller's record
AnnotatedCorpus_NoCopy(homes_data, s, dist) ==
    IF IsList(homes_data)
    THEN [homes_data EXCEPT !.rows =
            [i \in DOMAIN @ |->
                IF \E a \in DOMAIN s : s[a] = i
                THEN SetItem(@[i], "similarity_score", similarity(dist[i]))
                ELSE @[i]]]
    ELSE homes_data

\* lines 154-160: the caller's homes_data after the twins are annotated.  A
\* twin is homes_data[idx].copy(), or to_dict() of a row of the copy
\* homes_df, so line 159 writes into the copy
AnnotatedCorpus(homes_data, s, dist) == homes_data

\* k is passed on as it is
KActual_Unclamped(k, homes_data) == k

\* line 145
KActual(k, homes_data) == Min(k, Length(homes_data))

\* lines 131-162: the outcomes of find_similar_homes(user_home, homes_data, k),
\* with the state the call leaves: preprocess_data(fit=False) assigns neither
\* an encoder nor the scaler (lines 68-76, 101)
find_similar_homes(user_home, homes_data, k, encoders, sc, m) ==
    LET user_pre == preprocess_data(DataFrame(<<user_home>>), FALSE, encoders, sc)
        homes_df == AsFrame(homes_data)
        homes_pre == preprocess_data(homes_df, FALSE, encoders, sc)
        k_actual == KActual(k, homes_data)
        x == user_pre.features[1]
        dist == Distances(m, x)
        Failed(e, features) ==
            {[raised |-> e, user_width |-> user_pre.width, user_features |-> features,
              similar_homes |-> <<>>, indices |-> <<>>, distances |-> <<>>,
              homes_data |-> homes_data,
              label_encoders |-> encoders,
              scaler |-> sc]}
    IN IF user_pre.raised # "ok" THEN Failed(user_pre.raised, <<>>)
       ELSE IF homes_pre.raised # "ok" THEN Failed(homes_pre.raised, x)
       ELSE IF KneighborsRaises(m, x, k_actual) THEN Failed("ValueError", x)
       ELSE {[raised |-> IF \E a \in 1..k_actual : s[a] > Length(homes_data)
                         THEN "IndexError" ELSE "ok",
              user_width |-> user_pre.width,
              user_features |-> x,
              indices |-> s,
              distances |-> [a \in 1..k_actual |-> dist[s[a]]],
              homes_data |-> AnnotatedCorpus(homes_data, s, dist),
              label_encoders |-> encoders,
              scaler |-> sc,
              similar_homes |->
                IF \E a \in 1..k_actual : s[a] > Length(homes_data) THEN <<>>
                ELSE [a \in 1..k_actual |->
                        SetItem(IF IsList(homes_data) THEN homes_data.rows[s[a]]
                                ELSE homes_df.rows[s[a]],
                                "similarity_score", similarity(dist[s[a]]))]]
             : s \in NeighborOrders(dist, k_actual)}

\* ------------------------------------------------- predict_energy_usage
\* dict.get(key, default)
Get(home, key, default) == IF key \in DOMAIN home THEN home[key] ELSE default

\* Python truth of a usage value: None and 0 are false, NaN is true
Truthy(usage) == usage # None /\ usage # 0

\* a float result as a fraction in lowest terms; NaN is 0/0
Fraction(n, d) == LET g == Gcd(n, d) IN [num |-> n \div g, den |-> d \div g]
NaNResult == [num |-> 0, den |-> 0]

\* np.average(a, weights=w): NaN as soon as one value is NaN
average(a, w) ==
    IF \E i \in DOMAIN a : a[i] = NaN THEN NaNResult
    ELSE Fraction(SumSeq([i \in DOMAIN a |-> a[i] * w[i]]), SumSeq(w))

\* lines 173-177
Usages(similar_homes) ==
    LET usage(home) == Get(home, "monthly_kwh", Get(home, "monthly_usage", None))
        kept == SelectSeq(similar_homes, LAMBDA home : Truthy(usage(home)))
    IN [i \in DOMAIN kept |-> usage(kept[i])]

\* line 183
Weights(similar_homes, usages) ==
    LET first == SubSeq(similar_homes, 1, Len(usages))
    IN [i \in DOMAIN first |-> Get(first[i], "similarity_score", SimScale)]

\* lines 170-186: the outcomes of predict_energy_usage(user_home, homes_data, k)
predict_energy_usage(user_home, homes_data, k, encoders, sc, m) ==
    {LET usages == Usages(found.similar_homes)
         weights == Weights(found.similar_homes, usages)
     IN [raised |-> found.raised, user_width |-> found.user_width,
         user_features |-> found.user_features,
         similar_homes |-> found.similar_homes,
         indices |-> found.indices, distances |-> found.distances,
         homes_data |-> found.homes_data,
         label_encoders |-> found.label_encoders, scaler |-> found.scaler,
         usages |-> usages, weights |-> weights,
         predicted |-> IF found.raised # "ok" THEN NaNResult
                       ELSE IF usages = <<>> THEN Fraction(900, 1)
                       ELSE average(usages, weights)]
     : found \in find_similar_homes(user_home, homes_data, k, encoders, sc, m)}

\* --------------------------------------------------- calculate_insights
\* lines 194-196: one usage per twin; the default 900 is taken only when
\* the twin has neither key
InsightUsages(similar_homes) ==
    [i \in DOMAIN similar_homes |->
        Get(similar_homes[i], "monthly_kwh", Get(similar_homes[i], "monthly_usage", 900))]

\* line 199
HeatingTypes(similar_homes) ==
    [i \in DOMAIN similar_homes |-> Get(similar_homes[i], "in.heating_fuel", "Unknown")]

Count(seq, v) == Cardinality({i \in DOMAIN seq : seq[i] = v})

\* line 205: max(set(heating_types), key=heating_types.count) returns the
\* first value of highest count in the iteration order of the set, and the
\* order of a set of strings changes with the hash seed of the process:
\* any value of highest count can come out
CommonHeating(heating_types) ==
    IF heating_types = <<>> THEN {"Unknown"}
    ELSE {v \in Range(heating_types) :
             \A w \in Range(heating_types) : Count(heating_types, w) <= Count(heating_types, v)}

MinOf(seq) == CHOOSE v \in Range(seq) : \A w \in Range(seq) : v <= w
MaxOf(seq) == CHOOSE v \in Range(seq) : \A w \in Range(seq) : w <= v

\* np.mean of numbers
mean(usages) == Fraction(SumSeq(usages), Len(usages))

\* int(x) of a positive float
IntOf(x) == x.num \div x.den

\* the thresholds are met, not only exceeded
generate_recommendation_Inclusive(user_home, similar_homes, usages) ==
    LET avg_usage == mean(usages)
        user_usage == Get(user_home, "monthly_kwh", Get(user_home, "monthly_usage", None))
    IN IF Truthy(user_usage)
       THEN [message |->
                IF 5 * user_usage * avg_usage.den >= 6 * avg_usage.num THEN "higher"
                ELSE IF 5 * user_usage * avg_usage.den <= 4 * avg_usage.num THEN "lower"
                ELSE "typical",
             quoted |-> <<user_usage, IntOf(avg_usage)>>]
       ELSE [message |-> "expect",
             quoted |-> <<Len(similar_homes), IntOf(avg_usage)>>]

\* x < y on floats that are numbers, by whole parts and then remainders
FracLess(x, y) ==
    \/ x.num \div x.den < y.num \div y.den
    \/ /\ x.num \div x.den = y.num \div y.den
       /\ (x.num % x.den) * y.den < (y.num % y.den) * x.den

\* lines 219-225: the branch a usage that is a number takes, and the numbers
\* the message quotes.  user_usage > avg_usage * 1.2 and
\* user_usage < avg_usage * 0.8, on fractions
threshold_message(user_usage, avg_usage) ==
    [message |->
        IF FracLess(Fraction(6 * avg_usage.num, 5 * avg_usage.den), user_usage)
        THEN "higher"
        ELSE IF FracLess(user_usage, Fraction(4 * avg_usage.num, 5 * avg_usage.den))
        THEN "lower"
        ELSE "typical",
     quoted |-> <<IntOf(user_usage), IntOf(avg_usage)>>]

\* line 227
expect_message(similar_homes, avg_usage) ==
    [message |-> "expect", quoted |-> <<Len(similar_homes), IntOf(avg_usage)>>]

\* lines 213-227: the branch taken and the numbers the message quotes
generate_recommendation(user_home, similar_homes, usages) ==
    LET avg_usage == mean(usages)
        user_usage == Get(user_home, "monthly_kwh", Get(user_home, "monthly_usage", None))
    IN IF Truthy(user_usage)
       THEN threshold_message(Fraction(user_usage, 1), avg_usage)
       ELSE expect_message(similar_homes, avg_usage)

\* lines 192-209: the outcomes of calculate_insights(similar_homes,
\* user_home).  float(None) raises TypeError (line 196); np.min of no value
\* raises ValueError (line 203); a NaN usage makes the mean NaN and int(NaN)
\* raises ValueError in _generate_recommendation
calculate_insights(similar_homes, user_home) ==
    LET usages == InsightUsages(similar_homes)
        Failed(e) ==
            {[raised |-> e, avg_twin_usage |-> NaNResult, min_usage |-> NaN,
              max_usage |-> NaN, common_heating |-> "", message |-> "", quoted |-> <<>>]}
    IN IF \E i \in DOMAIN usages : usages[i] = None THEN Failed("TypeError")
       ELSE IF usages = <<>> THEN Failed("ValueError")
       ELSE IF \E i \in DOMAIN usages : usages[i] = NaN THEN Failed("ValueError")
       ELSE {LET rec == generate_recommendation(user_home, similar_homes, usages)
             IN [raised |-> "ok",
                 avg_twin_usage |-> mean(usages),
                 min_usage |-> MinOf(usages),
                 max_usage |-> MaxOf(usages),
                 common_heating |-> heating,
                 message |-> rec.message,
                 quoted |-> rec.quoted]
             : heating \in CommonHeating(HeatingTypes(similar_homes))}

\* ------------------------------------------------ save_model, load_model
\* lines 231-237: the file holds the three objects as pickle wrote them;
\* pickle.load gives back objects equal to the ones dumped
save_model(encoders, sc, m) ==
    [exists |-> TRUE, label_encoders |-> encoders, scaler |-> sc, model |-> m]

\* the encoders of the file are not taken over
load_model_NoEncoders(file, matcher) ==
    IF file.exists
    THEN [returned |-> TRUE,
          matcher |-> [label_encoders |-> matcher.label_encoders,
                       scaler |-> file.scaler, model |-> file.model]]
    ELSE [returned |-> FALSE, matcher |-> matcher]

\* a path without a file resets the matcher
load_model_ClearsOnMissing(file, matcher) ==
    IF file.exists
    THEN [returned |-> TRUE,
          matcher |-> [label_encoders |-> file.label_encoders,
                       scaler |-> file.scaler, model |-> file.model]]
    ELSE [returned |-> FALSE,
          matcher |-> [label_encoders |-> <<>>, scaler |-> NewScaler,
                       model |-> NoModel]]

\* lines 241-248: what load_model returns and the matcher it leaves
load_model(file, matcher) ==
    IF file.exists
    THEN [returned |-> TRUE,
          matcher |-> [label_encoders |-> file.label_encoders,
                       scaler |-> file.scaler, model |-> file.model]]
    ELSE [returned |-> FALSE, matcher |-> matcher]

\* ------------------------------ download_sample_metadata (resstock_loader.py)
\* lines 26-32: three metadata URLs
metadata_urls == <<"2025/resstock_amy2018", "2024/resstock_amy2018", "2024/resstock_tmy3">>

\* what one URL does when asked: another status than 200, requests.get
\* raises, the stream breaks while the temporary file is written, the file is
\* not a parquet file, or it parses to a dataset of some number of rows
UrlOutcomes ==
    {[step |-> "status", rows |-> 0], [step |-> "get_raises", rows |-> 0],
     [step |-> "write_raises", rows |-> 0], [step |-> "parse_raises", rows |-> 0],
     [step |-> "parsed", rows |-> 0], [step |-> "parsed", rows |-> 1],
     [step |-> "parsed", rows |-> 3]}

\* num_samples: None, or a number
SampleSizes == {None, 0, 2}

\* lines 336-503: range(num_samples) records
create_fallback_data(num_samples) == [kind |-> "fallback", records |-> num_samples]

\* lines 38-103: download_sample_metadata(output_file, num_samples) when the
\* URLs answer as in outcomes and the temporary file exists or not before
download_sample_metadata(outcomes, num_samples, temp_before) ==
    LET Parsed(i) == outcomes[i].step = "parsed"
        \* lines 51-72: a URL is asked if none before it parsed (break)
        Tried == {i \in DOMAIN metadata_urls : \A j \in 1..(i - 1) : ~Parsed(j)}
        Hit == {i \in Tried : Parsed(i)}
        parsed == IF Hit = {} THEN 0 ELSE CHOOSE i \in Hit : TRUE
        \* line 60: open(temp_file, 'wb') creates the file
        written == \E i \in Tried :
                      outcomes[i].step \in {"write_raises", "parse_raises", "parsed"}
        rows == IF parsed = 0 THEN 0 ELSE outcomes[parsed].rows
    IN IF parsed # 0 /\ rows > 0
       THEN \* lines 76-99
            [raised |-> "ok", attempts |-> Cardinality(Tried), parsed |-> parsed,
             kind |-> "resstock",
             records |-> IF Truthy(num_samples) /\ rows > num_samples
                         THEN num_samples ELSE rows,
             temp_exists |-> FALSE]
       ELSE \* lines 100-103
            LET data == create_fallback_data(IF Truthy(num_samples)
                                             THEN num_samples ELSE 1000)
            IN [raised |-> "ok", attempts |-> Cardinality(Tried), parsed |-> parsed,
                kind |-> data.kind, records |-> data.records,
                temp_exists |-> temp_before \/ written]

\* ---------------------------------------------------------------- inputs
Home(sqft, bedrooms, heating_fuel, has_pv, monthly_kwh) ==
    "in.sqft..ft2" :> sqft @@ "in.bedrooms" :> bedrooms @@ "in.occupants" :> 2
    @@ "in.geometry_building_type_acs" :> "Single-Family Detached"
    @@ "in.heating_fuel" :> heating_fuel
    @@ "in.hvac_cooling_type" :> "Central AC"
    @@ "in.ashrae_iecc_climate_zone_2004" :> "Mixed-Humid"
    @@ "in.has_pv" :> has_pv @@ "monthly_kwh" :> monthly_kwh

Without(home, key) == [c \in DOMAIN home \ {key} |-> home[c]]

HomeA == Home(1500, 3, "Electricity", "No", 900)
HomeB == Home(1510, 3, "Natural Gas", "Yes", 1200)
\* no floor area and no usage value
HomeC == Without(Home(NaN, 2, "Electricity", "No", 0), "monthly_kwh")
HomeD == Home(1490, 3, "Natural Gas", "No", 900)

HomeSet == {HomeA, HomeB, HomeC, HomeD}

Query == Without(Home(1495, 2, "Electricity", "No", 0), "monthly_kwh")

QuerySet ==
    HomeSet \cup
    {Query,
     [Query EXCEPT !["in.heating_fuel"] = "Propane"],
     [Query EXCEPT !["in.sqft..ft2"] = Uncoercible],
     Without(Query, "in.bedrooms"),
     Without(Query, "in.heating_fuel")}

\* twins as find_similar_homes returns them, reduced to the keys
\* calculate_insights reads
Twin(heating_fuel, monthly_kwh) ==
    "in.heating_fuel" :> heating_fuel @@ "monthly_kwh" :> monthly_kwh

TwinSet ==
    {Twin("Electricity", 800), Twin("Natural Gas", 1000), Twin("Electricity", 1200),
     \* no usage key
     Without(Twin("Natural Gas", 900), "monthly_kwh"),
     \* the usage under the other key, no heating fuel
     "monthly_usage" :> 1000,
     \* a missing usage cell of a DataFrame corpus
     Twin("Electricity", NaN)}

Twins == UNION {[1..n -> TwinSet] : n \in 0..MaxTwins}

\* the query records, reduced to the keys calculate_insights reads
UserSet ==
    {<<>>, "monthly_kwh" :> 0, "monthly_kwh" :> 799, "monthly_kwh" :> 800,
     "monthly_kwh" :> 1000, "monthly_kwh" :> 1200, "monthly_kwh" :> 1201,
     "monthly_usage" :> 1080}

\* records reduced to the two fields the solar encoding reads:
\* has_solar_panel absent, True or False, in.has_pv absent or a string
SolarRecords ==
    {[c \in keys |-> IF c = "has_solar_panel" THEN panel ELSE pv] :
        keys \in SUBSET {"has_solar_panel", "in.has_pv"},
        panel \in {0, 1}, pv \in {"Yes", "yes", "No"}}

SolarFrames == UNION {[1..n -> SolarRecords] : n \in 1..MaxRows}

Lists == UNION {[1..n -> HomeSet] : n \in 0..MaxCorpus}

\* the corpus is a list of dicts or the DataFrame of one
Corpora ==
    {[kind |-> "list", rows |-> l] : l \in Lists}
    \cup {[kind |-> "df", frame |-> DataFrame(l)] : l \in Lists}

\* ------------------------------------------ the application (src/app.py)
\* a reply without insights
NoInsightsValue ==
    [raised |-> "ok", avg_twin_usage |-> NaNResult, min_usage |-> NaN,
     max_usage |-> NaN, common_heating |-> "", message |-> "", quoted |-> <<>>]

\* line 24: HOMES_DATA = None until load_homes_data has run
NotLoaded == [kind |-> "none"]

\* line 84: pd.DataFrame()
EmptyFrame == [kind |-> "df", frame |-> DataFrame(<<>>)]

\* read_parquet or download_sample_metadata raised
ReadRaised == [kind |-> "raise"]

\* what read_parquet (line 54) or download_sample_metadata (line 71) hands
\* over: a DataFrame, possibly without a row, or an exception
Reads ==
    {[kind |-> "df", frame |-> DataFrame(l)] :
        l \in UNION {[1..n -> HomeSet] : n \in 0..MaxRows}}
    \cup {ReadRaised}

\* lines 58-61, 73-76, 77-84: a fit that raised leaves an empty DataFrame
\* and whatever fit had assigned by then
after_fit(read, done) ==
    [HOMES_DATA |-> IF done.raised = "ok" THEN read ELSE EmptyFrame,
     label_encoders |-> done.label_encoders,
     scaler |-> done.scaler, model |-> done.model]

\* lines 50-84: HOMES_DATA and the matcher after load_homes_data.  The two
\* branches treat what they read alike: fit only if there is a row (lines
\* 58, 73); any exception leaves an empty DataFrame (line 84)
load_homes_data(read, encoders, sc, m) ==
    IF read = ReadRaised
    THEN [HOMES_DATA |-> EmptyFrame, label_encoders |-> encoders,
          scaler |-> sc, model |-> m]
    ELSE IF Length(read) > 0
    THEN after_fit(read, fit(read, encoders, sc, m))
    ELSE [HOMES_DATA |-> read, label_encoders |-> encoders,
          scaler |-> sc, model |-> m]

\* the JSON bodies of the requests: monthly_usage absent, 0 or a number,
\* the other keys of the form absent and so defaulted
Requests ==
    {[c \in keys |->
        CASE c = "home_size" -> 1495
          [] c = "bedrooms" -> 2
          [] c = "has_solar" -> has_solar
          [] c = "k_value" -> k_value
          [] c = "monthly_usage" -> monthly_usage] :
        keys \in {{"home_size", "bedrooms", "has_solar", "k_value"},
                  {"home_size", "bedrooms", "has_solar", "k_value", "monthly_usage"}},
        has_solar \in {"Yes", "No"}, k_value \in {0, 1, 2, 10},
        monthly_usage \in {0, 1200}}

\* lines 190-200
parse_user_home(data) ==
    "in.sqft..ft2" :> Get(data, "home_size", 1500)
    @@ "in.bedrooms" :> Get(data, "bedrooms", 3)
    @@ "in.occupants" :> Get(data, "occupants", 2)
    @@ "in.geometry_building_type_acs" :> Get(data, "building_type", "Single-Family Detached")
    @@ "in.heating_fuel" :> Get(data, "heating_fuel", "Electricity")
    @@ "in.hvac_cooling_type" :> Get(data, "cooling_type", "Central AC")
    @@ "in.ashrae_iecc_climate_zone_2004" :> Get(data, "climate_zone", "Mixed-Humid")
    @@ "display_location" :> Get(data, "location", "USA")

\* lines 213-215: has_solar_panel is True or False, 1 or 0 as a number
with_solar(user_home, data) ==
    LET has_solar_panel == IF Lower(Get(data, "has_solar", "No")) = "yes" THEN 1 ELSE 0
    IN SetItem(SetItem(user_home, "has_solar_panel", has_solar_panel),
               "in.has_pv", IF has_solar_panel = 1 THEN "Yes" ELSE "No")

\* the record handed over carries no monthly_kwh
calculate_insights_for_NoUsage(similar_homes, monthly_kwh) ==
    calculate_insights(similar_homes, <<>>)

\* calculate_insights(similar_homes, user_home) for a user_home whose
\* monthly_kwh is a float (app.py lines 205, 209): 0.0 is false, NaN is
\* true and int(NaN) raises ValueError (ml_model.py lines 218-225)
calculate_insights_for(similar_homes, monthly_kwh) ==
    {IF out.raised # "ok" \/ monthly_kwh = Fraction(0, 1) THEN out
     ELSE IF monthly_kwh = NaNResult
     THEN [out EXCEPT !.raised = "ValueError", !.avg_twin_usage = NaNResult,
                      !.min_usage = NaN, !.max_usage = NaN,
                      !.common_heating = "", !.message = "", !.quoted = <<>>]
     ELSE LET rec == threshold_message(monthly_kwh, out.avg_twin_usage)
          IN [out EXCEPT !.message = rec.message, !.quoted = rec.quoted]
     : out \in calculate_insights(similar_homes, <<>>)}

\* lines 233-235, 240: int() of a missing cell raises ValueError
FormatRaises(similar_homes) ==
    \E i \in DOMAIN similar_homes :
        \E c \in {"in.sqft..ft2", "in.bedrooms", "in.occupants", "monthly_kwh"} :
            c \in DOMAIN similar_homes[i] /\ similar_homes[i][c] = NaN

\* a failure comes back as a success without twins
Failure_Defaults(e) ==
    [success |-> TRUE, status |-> 200, message |-> "", twins |-> <<>>,
     insights |-> NoInsightsValue]

\* lines 260-267: the except block
Failure(e) ==
    [success |-> FALSE, status |-> 400, message |-> e, twins |-> <<>>,
     insights |-> NoInsightsValue]

\* lines 253-258
Success(similar_homes, out) ==
    [success |-> TRUE, status |-> 200, message |-> "", twins |-> similar_homes,
     insights |-> out]

\* lines 186-267: the outcomes of one POST /api/find-twins: the reply, what
\* the handler passed to the matcher on the way, and HOMES_DATA after it
find_twins(data, homes_data, encoders, sc, m) ==
    LET user_home == parse_user_home(data)
        monthly_usage == Get(data, "monthly_usage", None)
        k_value == Get(data, "k_value", 10)
        Trace(raised_in, p, find_called, find_features, insights_called, hd, reply) ==
            [op |-> "find_twins", data |-> data, raised_in |-> raised_in,
             predict_called |-> p.called, predict_features |-> p.user_features,
             monthly_kwh |-> p.monthly_kwh,
             find_called |-> find_called, find_features |-> find_features,
             insights_called |-> insights_called,
             homes_data |-> hd, reply |-> reply]
        Predictions ==
            IF Truthy(monthly_usage)
            THEN {[called |-> FALSE, raised |-> "ok", user_features |-> <<>>,
                   monthly_kwh |-> Fraction(monthly_usage, 1),
                   homes_data |-> homes_data]}
            ELSE {[called |-> TRUE, raised |-> out.raised,
                   user_features |-> out.user_features,
                   monthly_kwh |-> out.predicted,
                   homes_data |-> out.homes_data]
                  : out \in predict_energy_usage(user_home, homes_data, 50,
                                                 encoders, sc, m)}
        Insights(p, found) ==
            {IF out.raised # "ok"
             THEN Trace("calculate_insights", p, TRUE, found.user_features, TRUE,
                        found.homes_data, Failure(out.raised))
             ELSE IF FormatRaises(found.similar_homes)
             THEN Trace("format", p, TRUE, found.user_features, TRUE,
                        found.homes_data, Failure("ValueError"))
             ELSE Trace("none", p, TRUE, found.user_features, TRUE,
                        found.homes_data, Success(found.similar_homes, out))
             : out \in calculate_insights_for(found.similar_homes, p.monthly_kwh)}
        Found(p) ==
            UNION {IF found.raised # "ok"
                   THEN {Trace("find_similar_homes", p, TRUE, found.user_features,
                               FALSE, found.homes_data, Failure(found.raised))}
                   ELSE Insights(p, found)
                   : found \in find_similar_homes(
                                  with_solar(SetItem(user_home, "monthly_kwh", p.monthly_kwh), data),
                                  p.homes_data, k_value, encoders, sc, m)}
    IN UNION {IF p.raised # "ok"
              THEN {Trace("predict_energy_usage", p, FALSE, <<>>, FALSE,
                          p.homes_data, Failure(p.raised))}
              ELSE Found(p)
              : p \in Predictions}

\* ----------------------------------------------------------------- state
\* HOMES_DATA and the matcher ml_matcher (label_encoders, scaler, model), the
\* call in progress, the file save_model writes, a second matcher that
\* load_model fills, the insights calculate_insights builds, the response of
\* /api/find-twins, and the run of download_sample_metadata
VARIABLES HOMES_DATA, label_encoders, scaler, model, call,
          pickle_file, loaded, insights, response, download

vars == <<HOMES_DATA, label_encoders, scaler, model, call,
          pickle_file, loaded, insights, response, download>>

NoCall ==
    [op |-> "none", user_home |-> <<>>, homes_data |-> <<>>, k |-> 0,
     raised |-> "ok", returned |-> FALSE, filepath |-> "",
     has_solar_encoded |-> <<>>,
     user_width |-> 0, user_features |-> <<>>,
     similar_homes |-> <<>>, indices |-> <<>>, distances |-> <<>>,
     usages |-> <<>>, weights |-> <<>>, predicted |-> NaNResult]

\* EnergyTwinMatcher(): nothing fitted (lines 19-21)
FreshMatcher == [label_encoders |-> <<>>, scaler |-> NewScaler, model |-> NoModel]

\* no file at the path yet
NoFile ==
    [exists |-> FALSE, label_encoders |-> <<>>, scaler |-> NewScaler, model |-> NoModel]

\* calculate_insights has not been called
NoInsights ==
    [op |-> "none", similar_homes |-> <<>>, user_home |-> <<>>, raised |-> "ok",
     avg_twin_usage |-> NaNResult, min_usage |-> NaN, max_usage |-> NaN,
     common_heating |-> "", message |-> "", quoted |-> <<>>]

\* no request handled yet
NoResponse == [op |-> "none"]

\* download_sample_metadata has not run: no temporary file
NoDownload ==
    [op |-> "none", outcomes |-> <<>>, num_samples |-> None, raised |-> "ok",
     attempts |-> 0, parsed |-> 0, kind |-> "", records |-> 0,
     temp_exists |-> FALSE]

\* EnergyTwinMatcher(): nothing fitted
Init ==
    /\ HOMES_DATA \in Corpora
    /\ label_encoders = <<>>
    /\ scaler = NewScaler
    /\ model = NoModel
    /\ call = NoCall
    /\ pickle_file = NoFile
    /\ loaded = FreshMatcher
    /\ insights = NoInsights
    /\ response = NoResponse
    /\ download = NoDownload

\* ml_matcher.fit(HOMES_DATA)
Fit ==
    /\ call = NoCall
    /\ LET done == fit(HOMES_DATA, label_encoders, scaler, model)
       IN /\ label_encoders' = done.label_encoders
          /\ scaler' = done.scaler
          /\ model' = done.model
          /\ call' = [NoCall EXCEPT !.op = "fit", !.raised = done.raised]
          /\ UNCHANGED <<HOMES_DATA, pickle_file, loaded, insights, response, download>>

\* ml_matcher.find_similar_homes(user_home, HOMES_DATA, k)
FindSimilar ==
    /\ call = NoCall
    /\ \E user_home \in QuerySet, k \in -1..MaxK :
      \E found \in find_similar_homes(user_home, HOMES_DATA, k,
                                      label_encoders, scaler, model) :
        /\ call' = [NoCall EXCEPT !.op = "find_similar_homes",
                                  !.user_home = user_home,
                                  !.homes_data = HOMES_DATA, !.k = k,
                                  !.raised = found.raised,
                                  !.user_width = found.user_width,
                                  !.user_features = found.user_features,
                                  !.similar_homes = found.similar_homes,
                                  !.indices = found.indices,
                                  !.distances = found.distances]
        /\ HOMES_DATA' = found.homes_data
        /\ label_encoders' = found.label_encoders
        /\ scaler' = found.scaler
        /\ UNCHANGED <<model, pickle_file, loaded, insights, response, download>>

\* ml_matcher.predict_energy_usage(user_home, HOMES_DATA, k)
PredictUsage ==
    /\ call = NoCall
    /\ \E user_home \in QuerySet, k \in -1..MaxK :
      \E out \in predict_energy_usage(user_home, HOMES_DATA, k,
                                      label_encoders, scaler, model) :
        /\ call' = [NoCall EXCEPT !.op = "predict_energy_usage",
                                  !.user_home = user_home,
                                  !.homes_data = HOMES_DATA, !.k = k,
                                  !.raised = out.raised,
                                  !.user_width = out.user_width,
                                  !.user_features = out.user_features,
                                  !.similar_homes = out.similar_homes,
                                  !.indices = out.indices,
                                  !.distances = out.distances,
                                  !.usages = out.usages,
                                  !.weights = out.weights,
                                  !.predicted = out.predicted]
        /\ HOMES_DATA' = out.homes_data
        /\ label_encoders' = out.label_encoders
        /\ scaler' = out.scaler
        /\ UNCHANGED <<model, pickle_file, loaded, insights, response, download>>

\* the call returns to its caller
Return ==
    /\ call # NoCall
    /\ call' = NoCall
    /\ UNCHANGED <<HOMES_DATA, label_encoders, scaler, model,
                   pickle_file, loaded, insights, response, download>>

Next == Fit \/ FindSimilar \/ PredictUsage \/ Return

Spec == Init /\ [][Next]_vars

\* ------------------------------------------ a saved and a loaded matcher
\* ml_matcher.save_model(filepath)
SaveModel ==
    /\ call = NoCall
    /\ pickle_file' = save_model(label_encoders, scaler, model)
    /\ call' = [NoCall EXCEPT !.op = "save_model"]
    /\ UNCHANGED <<HOMES_DATA, label_encoders, scaler, model, loaded, insights, response, download>>

\* the paths a caller passes: the one save_model writes to, and one that
\* nothing is written to
Paths == {"model.pkl", "missing.pkl"}

\* the file at a path
FileAt(filepath) == IF filepath = "model.pkl" THEN pickle_file ELSE NoFile

\* load_model(filepath) on the second matcher
LoadModel ==
    /\ call = NoCall
    /\ \E filepath \in Paths :
         \E done \in {load_model(FileAt(filepath), loaded)} :
            /\ loaded' = done.matcher
            /\ call' = [NoCall EXCEPT !.op = "load_model", !.filepath = filepath,
                                      !.returned = done.returned]
    /\ UNCHANGED <<HOMES_DATA, label_encoders, scaler, model, pickle_file, insights, response, download>>

\* find_similar_homes(user_home, HOMES_DATA, k) on the second matcher
FindSimilarLoaded ==
    /\ call = NoCall
    /\ \E user_home \in QuerySet, k \in -1..MaxK :
      \E found \in find_similar_homes(user_home, HOMES_DATA, k,
                                      loaded.label_encoders, loaded.scaler,
                                      loaded.model) :
        /\ call' = [NoCall EXCEPT !.op = "loaded.find_similar_homes",
                                  !.user_home = user_home,
                                  !.homes_data = HOMES_DATA, !.k = k,
                                  !.raised = found.raised,
                                  !.user_width = found.user_width,
                                  !.user_features = found.user_features,
                                  !.similar_homes = found.similar_homes,
                                  !.indices = found.indices,
                                  !.distances = found.distances]
        /\ HOMES_DATA' = found.homes_data
        /\ loaded' = [label_encoders |-> found.label_encoders,
                      scaler |-> found.scaler, model |-> loaded.model]
        /\ UNCHANGED <<label_encoders, scaler, model, pickle_file, insights, response, download>>

NextPersist == Fit \/ SaveModel \/ LoadModel \/ FindSimilarLoaded \/ Return

SpecPersist == Init /\ [][NextPersist]_vars

\* --------------------------------- a caller with a homes_data of its own
\* homes_data with other rows
WithRows(homes_data, rows) ==
    IF IsList(homes_data)
    THEN [kind |-> "list", rows |-> rows]
    ELSE [kind |-> "df", frame |-> [homes_data.frame EXCEPT !.rows = rows]]

Reverse(seq) == [i \in DOMAIN seq |-> seq[Len(seq) + 1 - i]]

\* what a caller may pass as homes_data (line 125): the fitted corpus, the
\* corpus in another order, without its first record, or repeated
Arguments(homes_data) ==
    LET rows == IF IsList(homes_data) THEN homes_data.rows ELSE homes_data.frame.rows
    IN {homes_data,
        WithRows(homes_data, Reverse(rows)),
        WithRows(homes_data, IF rows = <<>> THEN <<>> ELSE Tail(rows)),
        WithRows(homes_data, rows \o rows)}

\* ml_matcher.find_similar_homes(user_home, homes_data, k), the matcher
\* fitted on HOMES_DATA
FindSimilarIn ==
    /\ call = NoCall
    /\ \E user_home \in QuerySet, k \in -1..MaxK, homes_data \in Arguments(HOMES_DATA) :
      \E found \in find_similar_homes(user_home, homes_data, k,
                                      label_encoders, scaler, model) :
        /\ call' = [NoCall EXCEPT !.op = "find_similar_homes",
                                  !.user_home = user_home,
                                  !.homes_data = found.homes_data, !.k = k,
                                  !.raised = found.raised,
                                  !.user_width = found.user_width,
                                  !.user_features = found.user_features,
                                  !.similar_homes = found.similar_homes,
                                  !.indices = found.indices,
                                  !.distances = found.distances]
        /\ label_encoders' = found.label_encoders
        /\ scaler' = found.scaler
        /\ UNCHANGED <<HOMES_DATA, model, pickle_file, loaded, insights, response, download>>

NextCaller == Fit \/ FindSimilarIn \/ Return

SpecCaller == Init /\ [][NextCaller]_vars

\* ------------------------------------------------ the solar encoding
InitSolar ==
    /\ \E rows \in SolarFrames : HOMES_DATA = [kind |-> "list", rows |-> rows]
    /\ label_encoders = <<>>
    /\ scaler = NewScaler
    /\ model = NoModel
    /\ call = NoCall
    /\ pickle_file = NoFile
    /\ loaded = FreshMatcher
    /\ insights = NoInsights
    /\ response = NoResponse
    /\ download = NoDownload

\* ml_matcher.preprocess_data(pd.DataFrame(homes_data), fit=True)
PreprocessData ==
    /\ call = NoCall
    /\ LET df == AsFrame(HOMES_DATA)
           pre == preprocess_data(df, TRUE, label_encoders, scaler)
       IN /\ label_encoders' = pre.label_encoders
          /\ scaler' = pre.scaler
          /\ call' = [NoCall EXCEPT !.op = "preprocess_data",
                                    !.homes_data = HOMES_DATA,
                                    !.raised = pre.raised,
                                    !.user_width = pre.width,
                                    !.has_solar_encoded =
                                        IF pre.raised = "ok" THEN SolarColumn(df)
                                        ELSE <<>>]
    /\ UNCHANGED <<HOMES_DATA, model, pickle_file, loaded, insights, response, download>>

NextSolar == PreprocessData \/ Return

SpecSolar == InitSolar /\ [][NextSolar]_vars

\* ------------------------------------------------- insights of twins
\* no matcher state is read by calculate_insights: the twins and the query
\* are its arguments
InitInsights ==
    /\ HOMES_DATA = [kind |-> "list", rows |-> <<>>]
    /\ label_encoders = <<>>
    /\ scaler = NewScaler
    /\ model = NoModel
    /\ call = NoCall
    /\ pickle_file = NoFile
    /\ loaded = FreshMatcher
    /\ response = NoResponse
    /\ download = NoDownload
    /\ \E similar_homes \in Twins, user_home \in UserSet :
          insights = [NoInsights EXCEPT !.similar_homes = similar_homes,
                                        !.user_home = user_home]

\* ml_matcher.calculate_insights(similar_homes, user_home)
CalculateInsights ==
    /\ insights.op = "none"
    /\ \E out \in calculate_insights(insights.similar_homes, insights.user_home) :
          insights' = [op |-> "calculate_insights",
                       similar_homes |-> insights.similar_homes,
                       user_home |-> insights.user_home,
                       raised |-> out.raised,
                       avg_twin_usage |-> out.avg_twin_usage,
                       min_usage |-> out.min_usage,
                       max_usage |-> out.max_usage,
                       common_heating |-> out.common_heating,
                       message |-> out.message,
                       quoted |-> out.quoted]
    /\ UNCHANGED <<HOMES_DATA, label_encoders, scaler, model, call,
                   pickle_file, loaded, response, download>>

NextInsights == CalculateInsights

SpecInsights == InitInsights /\ [][NextInsights]_vars

\* ----------------------------------------- the application's executions
\* the module is imported: ml_matcher = EnergyTwinMatcher() (line 21),
\* HOMES_DATA = None (line 24)
InitApp ==
    /\ HOMES_DATA = NotLoaded
    /\ label_encoders = <<>>
    /\ scaler = NewScaler
    /\ model = NoModel
    /\ call = NoCall
    /\ pickle_file = NoFile
    /\ loaded = FreshMatcher
    /\ insights = NoInsights
    /\ response = NoResponse
    /\ download = NoDownload

\* line 411: load_homes_data() at the end of the import
LoadHomesData ==
    /\ HOMES_DATA = NotLoaded
    /\ \E read \in Reads :
         \E done \in {load_homes_data(read, label_encoders, scaler, model)} :
            /\ HOMES_DATA' = done.HOMES_DATA
            /\ label_encoders' = done.label_encoders
            /\ scaler' = done.scaler
            /\ model' = done.model
    /\ UNCHANGED <<call, pickle_file, loaded, insights, response, download>>

\* POST /api/find-twins: the server takes requests once the import is done
FindTwins ==
    /\ HOMES_DATA # NotLoaded
    /\ \E data \in Requests :
         \E done \in find_twins(data, HOMES_DATA, label_encoders, scaler, model) :
            /\ response' = done
            /\ HOMES_DATA' = done.homes_data
    /\ UNCHANGED <<label_encoders, scaler, model, call, pickle_file, loaded,
                   insights, download>>

NextApp == LoadHomesData \/ FindTwins

SpecApp == InitApp /\ [][NextApp]_vars

\* ------------------------------------------------- fit on a second corpus
\* corpora whose records may lack the heating fuel column
RefitCorpora ==
    LET homes == {HomeA, HomeB, Without(HomeA, "in.heating_fuel"),
                  Without(HomeB, "in.heating_fuel")}
        lists == UNION {[1..n -> homes] : n \in 1..MaxRows}
    IN {[kind |-> "list", rows |-> l] : l \in lists}
       \cup {[kind |-> "df", frame |-> DataFrame(l)] : l \in lists}

\* ml_matcher.fit(homes_data) on another corpus, which the caller uses from
\* then on
FitOther ==
    /\ call = NoCall
    /\ \E homes_data \in RefitCorpora :
         \E done \in {fit(homes_data, label_encoders, scaler, model)} :
            /\ HOMES_DATA' = homes_data
            /\ label_encoders' = done.label_encoders
            /\ scaler' = done.scaler
            /\ model' = done.model
            /\ call' = [NoCall EXCEPT !.op = "fit", !.homes_data = homes_data,
                                      !.raised = done.raised]
    /\ UNCHANGED <<pickle_file, loaded, insights, response, download>>

NextRefit == Fit \/ FitOther \/ Return

SpecRefit == Init /\ [][NextRefit]_vars

\* ------------------------------------------ runs of the metadata download
\* loader.download_sample_metadata(output_file, num_samples)
DownloadSampleMetadata ==
    /\ download.op = "none"
    /\ \E outcomes \in [DOMAIN metadata_urls -> UrlOutcomes],
          num_samples \in SampleSizes :
         \E done \in {download_sample_metadata(outcomes, num_samples,
                                                download.temp_exists)} :
            download' = [op |-> "download_sample_metadata", outcomes |-> outcomes,
                         num_samples |-> num_samples, raised |-> done.raised,
                         attempts |-> done.attempts, parsed |-> done.parsed,
                         kind |-> done.kind, records |-> done.records,
                         temp_exists |-> done.temp_exists]
    /\ UNCHANGED <<HOMES_DATA, label_encoders, scaler, model, call,
                   pickle_file, loaded, insights, response>>

\* the function has returned; the files stay as they are
DownloadReturn ==
    /\ download.op # "none"
    /\ download' = [NoDownload EXCEPT !.temp_exists = download.temp_exists]
    /\ UNCHANGED <<HOMES_DATA, label_encoders, scaler, model, call,
                   pickle_file, loaded, insights, response>>

NextDownload == DownloadSampleMetadata \/ DownloadReturn

SpecDownload == InitApp /\ [][NextDownload]_vars

\* ---------------------------------------------------------------- claims
CorpusSize == Length(HOMES_DATA)

Records(homes_data) ==
    IF IsList(homes_data) THEN homes_data.rows ELSE homes_data.frame.rows

Queried == call.op \in {"find_similar_homes", "predict_energy_usage"}

Score(a) == call.similar_homes[a]["similarity_score"]

\* the query holds every feature field, and its numeric fields are numbers
CompleteQuery(q) ==
    /\ \A c \in Range(numeric_features) :
          c \in DOMAIN q /\ q[c] \notin {NaN, Uncoercible, None}
    /\ \A c \in Range(categorical_features) : c \in DOMAIN q

\* the twin holds a usage value: a number under monthly_kwh
HasUsageValue(home) ==
    "monthly_kwh" \in DOMAIN home /\ home["monthly_kwh"] \notin {NaN, None}

\* C1: after fit on a corpus of n >= 1 records, find_similar_homes with
\* k >= 1 returns at least min(k, n) and at most n twins, and a k above n is
\* clamped to n instead of failing (for a query the encoder accepts).
C1_ResultCount ==
    (/\ call.op = "find_similar_homes"
     /\ model.fitted
     /\ call.k >= 1
     /\ CompleteQuery(call.user_home))
    => /\ call.raised = "ok"
       /\ Len(call.similar_homes) >= Min(call.k, CorpusSize)
       /\ Len(call.similar_homes) <= CorpusSize
       /\ (call.k > CorpusSize => Len(call.similar_homes) = CorpusSize)

C1_Witness ==
    /\ call.op = "find_similar_homes"
    /\ model.fitted
    /\ CorpusSize >= 2
    /\ call.k > CorpusSize
    /\ call.raised = "ok"
    /\ Len(call.similar_homes) = CorpusSize

\* C2: the twins are returned by non-increasing similarity_score, that is
\* by ascending distance.
C2_Ordered ==
    (call.op = "find_similar_homes" /\ call.raised = "ok")
    => \A a \in 1..(Len(call.similar_homes) - 1) :
          /\ Score(a) >= Score(a + 1)
          /\ call.distances[a] <= call.distances[a + 1]

C2_Witness ==
    /\ call.op = "find_similar_homes"
    /\ call.raised = "ok"
    /\ Len(call.similar_homes) >= 3
    /\ Score(1) > Score(2)
    /\ Score(2) > Score(3)
    /\ call.indices[1] > call.indices[2]

\* C3: a query identical to a corpus member gets that member back first,
\* with similarity_score 1.0.
C3_IdenticalFirst ==
    (/\ call.op = "find_similar_homes"
     /\ model.fitted
     /\ call.k >= 1
     /\ call.user_home \in Range(Records(HOMES_DATA)))
    => /\ call.raised = "ok"
       /\ call.similar_homes[1] = SetItem(call.user_home, "similarity_score", SimScale)

\* C4: every similarity_score is 1 / (1 + d) for the distance d of its twin:
\* it lies in (0, 1], is 1.0 exactly when d = 0, and is strictly smaller for
\* a strictly larger distance.
C4_Similarity ==
    (Queried /\ call.raised = "ok")
    => \A a \in DOMAIN call.similar_homes :
          LET d == call.distances[a]
          IN /\ d = Distance(call.user_features, model.fit_X[call.indices[a]])
             /\ Score(a) * (Scale + d) <= SimScale * Scale
             /\ SimScale * Scale < (Score(a) + 1) * (Scale + d)
             /\ 0 < Score(a)
             /\ Score(a) <= SimScale
             /\ (Score(a) = SimScale <=> d = 0)
             /\ \A b \in DOMAIN call.similar_homes :
                   d < call.distances[b] => Score(a) > Score(b)

C4_Witness ==
    /\ Queried
    /\ call.raised = "ok"
    /\ Len(call.similar_homes) >= 2
    /\ call.distances[1] = 0
    /\ Score(1) = SimScale
    /\ call.distances[2] > 0
    /\ Score(2) < SimScale

\* C5: the prediction is the average of the usage values of the twins that
\* have one, each weighted by the similarity_score of the twin it came from.
C5_AlignedWeights ==
    (/\ call.op = "predict_energy_usage"
     /\ call.raised = "ok"
     /\ \E a \in DOMAIN call.similar_homes : HasUsageValue(call.similar_homes[a])
     /\ \A a \in DOMAIN call.similar_homes :
           "monthly_kwh" \in DOMAIN call.similar_homes[a]
           => call.similar_homes[a]["monthly_kwh"] # NaN)
    => LET contributing == SelectSeq(call.similar_homes, HasUsageValue)
       IN call.predicted =
            average([i \in DOMAIN contributing |-> contributing[i]["monthly_kwh"]],
                    [i \in DOMAIN contributing |-> contributing[i]["similarity_score"]])

\* C6: on a fitted corpus whose records all have usage 900, the prediction
\* is exactly 900 for every query and every k >= 1.
C6_Constant900 ==
    (/\ call.op = "predict_energy_usage"
     /\ model.fitted
     /\ call.k >= 1
     /\ \A i \in DOMAIN Records(HOMES_DATA) :
           /\ "monthly_kwh" \in DOMAIN Records(HOMES_DATA)[i]
           /\ Records(HOMES_DATA)[i]["monthly_kwh"] = 900)
    => /\ call.raised = "ok"
       /\ call.predicted = [num |-> 900, den |-> 1]

\* C7: when none of the twins found has a usage value, the prediction is the
\* fallback 900.
C7_Fallback ==
    (/\ call.op = "predict_energy_usage"
     /\ call.raised = "ok"
     /\ \A a \in DOMAIN call.similar_homes : ~HasUsageValue(call.similar_homes[a]))
    => call.predicted = [num |-> 900, den |-> 1]

\* C8: the feature vector of a query holds no missing value: a numeric field
\* that is missing or does not coerce is replaced by the fit-time median.
C8_NoMissingValue ==
    (Queried /\ model.fitted /\ call.k >= 1)
    => \A j \in DOMAIN call.user_features : call.user_features[j] # FNaN

\* C9: the feature vector assembled for a query has the fit-time number of
\* dimensions, also when the query omits a field that was present at fit.
C9_SameWidth ==
    (Queried /\ model.fitted /\ call.k >= 1)
    => call.user_width = scaler.n_features_in

\* the categorical features whose value in q is not in the fitted vocabulary
UnseenColumns(q) ==
    {j \in DOMAIN categorical_features :
        /\ categorical_features[j] \in DOMAIN q
        /\ categorical_features[j] \in DOMAIN label_encoders
        /\ q[categorical_features[j]]
              \notin Range(label_encoders[categorical_features[j]])}

C11_NonPositiveK ==
    (Queried /\ model.fitted /\ call.k <= 0)
    => /\ call.raised = "ValueError"
       /\ call.similar_homes = <<>>

C11_Witness ==
    /\ call.op = "find_similar_homes"
    /\ model.fitted
    /\ call.k < 0
    /\ CompleteQuery(call.user_home)
    /\ call.raised = "ValueError"

\* C12: find_similar_homes or predict_energy_usage on a matcher that was
\* never fitted fails with NotFittedError and leaves the matcher as
\* __init__ made it.
C12_NotFitted ==
    (Queried /\ ~model.fitted)
    => /\ call.raised = "NotFittedError"
       /\ call.similar_homes = <<>>
       /\ label_encoders = <<>>
       /\ scaler = [fitted |-> FALSE, n_features_in |-> 0, mean |-> <<>>, scale |-> <<>>]
       /\ model = NoModel

C12_Witness ==
    /\ call.op = "predict_energy_usage"
    /\ ~model.fitted
    /\ CorpusSize >= 1
    /\ call.k >= 1
    /\ CompleteQuery(call.user_home)
    /\ call.raised = "NotFittedError"

\* C13: fit on a corpus of zero records fails (with the ValueError of
\* StandardScaler, which needs at least one sample) and fits nothing.
C13_EmptyCorpus ==
    (call.op = "fit" /\ CorpusSize = 0)
    => /\ call.raised = "ValueError"
       /\ ~model.fitted
       /\ ~scaler.fitted

C13_Witness ==
    /\ call.op = "fit"
    /\ CorpusSize = 0
    /\ ~IsList(HOMES_DATA)
    /\ call.raised = "ValueError"

\* C14: a find_similar_homes or predict_energy_usage call on a fitted
\* matcher changes neither the corpus records nor the label encoders, the
\* scaler or the neighbour index; the similarity_score is written into
\* copies, never into a corpus record.
C14_PureRead ==
    [][(model.fitted /\ call'.op \in {"find_similar_homes", "predict_energy_usage"})
       => /\ HOMES_DATA' = HOMES_DATA
          /\ label_encoders' = label_encoders
          /\ scaler' = scaler
          /\ model' = model]_vars

C14_Witness ==
    /\ call.op = "find_similar_homes"
    /\ model.fitted
    /\ IsList(HOMES_DATA)
    /\ call.raised = "ok"
    /\ Len(call.similar_homes) >= 2
    /\ \A a \in DOMAIN call.similar_homes :
          "similarity_score" \in DOMAIN call.similar_homes[a]
    /\ \A i \in DOMAIN HOMES_DATA.rows :
          "similarity_score" \notin DOMAIN HOMES_DATA.rows[i]

UsageOr900(home) ==
    LET v == Get(home, "monthly_kwh", Get(home, "monthly_usage", None))
    IN IF v \in {NaN, None} THEN 900 ELSE v

\* C16: avg_twin_usage, min_usage and max_usage are taken over one usage per
\* twin, 900 standing for every twin that has no usage value, no twin skipped.
C16_InsightUsages ==
    (insights.op = "calculate_insights" /\ insights.similar_homes # <<>>)
    => LET expected == [i \in DOMAIN insights.similar_homes |->
                           UsageOr900(insights.similar_homes[i])]
       IN /\ insights.raised = "ok"
          /\ insights.avg_twin_usage = Fraction(SumSeq(expected), Len(expected))
          /\ \A i \in DOMAIN expected : insights.min_usage <= expected[i]
          /\ \A i \in DOMAIN expected : expected[i] <= insights.max_usage
          /\ \E i \in DOMAIN expected : insights.min_usage = expected[i]
          /\ \E i \in DOMAIN expected : insights.max_usage = expected[i]

\* the place of the first twin with this heating fuel
FirstOccurrence(heating_types, v) ==
    CHOOSE i \in DOMAIN heating_types :
        heating_types[i] = v /\ \A j \in 1..(i - 1) : heating_types[j] # v

\* C17: common_heating is the heating fuel of highest count among the twins
\* and, among several of highest count, the one that occurs first.
C17_CommonHeating ==
    (insights.op = "calculate_insights" /\ insights.raised = "ok")
    => LET heating_types == HeatingTypes(insights.similar_homes)
           common == insights.common_heating
       IN /\ common \in Range(heating_types)
          /\ \A w \in Range(heating_types) :
                /\ Count(heating_types, w) <= Count(heating_types, common)
                /\ Count(heating_types, w) = Count(heating_types, common)
                      => FirstOccurrence(heating_types, common)
                           <= FirstOccurrence(heating_types, w)

\* the query supplies a usage value; as in find_twins (src/app.py 204), a
\* usage of 0 stands for none
SuppliesUsage(user_home) ==
    \E key \in {"monthly_kwh", "monthly_usage"} :
        key \in DOMAIN user_home /\ user_home[key] \notin {None, 0}

C19_ZeroReserved ==
    (/\ Queried
     /\ model.fitted
     /\ call.raised = "ok"
     /\ UnseenColumns(call.user_home) # {})
    => \A j \in UnseenColumns(call.user_home) :
          LET classes == label_encoders[categorical_features[j]]
              col == Len(numeric_features) + j
          IN \A s \in Range(classes) :
                /\ LabelCode(classes, s) # 0
                /\ call.user_features[col]
                     # ((FP(LabelCode(classes, s)) - scaler.mean[col]) * Scale)
                         \div scaler.scale[col]

\* C20: every twin find_similar_homes returns is the record of the fitted
\* corpus at the returned neighbour index, whatever homes_data the caller
\* passes.
C20_RowIsRecord ==
    (call.op = "find_similar_homes" /\ model.fitted /\ call.raised = "ok")
    => \A a \in DOMAIN call.similar_homes :
          /\ call.indices[a] \in DOMAIN Records(HOMES_DATA)
          /\ call.similar_homes[a]
               = SetItem(Records(HOMES_DATA)[call.indices[a]],
                         "similarity_score", Score(a))

\* C21: the neighbour query returns the k rows of smallest distance,
\* ascending by distance, rows at one distance by ascending corpus index.
C21_TieByIndex ==
    (call.op = "find_similar_homes" /\ call.raised = "ok")
    => LET Before(d1, i1, d2, i2) == d1 < d2 \/ (d1 = d2 /\ i1 < i2)
       IN /\ \A a \in 1..(Len(call.indices) - 1) :
                Before(call.distances[a], call.indices[a],
                       call.distances[a + 1], call.indices[a + 1])
          /\ \A i \in DOMAIN model.fit_X :
                (\A a \in DOMAIN call.indices : call.indices[a] # i)
                => \A a \in DOMAIN call.indices :
                      Before(call.distances[a], call.indices[a],
                             Distance(call.user_features, model.fit_X[i]), i)

\* C22: the solar channel of a record is 1 if has_solar_panel is truthy,
\* else 1 if in.has_pv is "Yes" in any case of the letters, else 0; a record
\* without has_solar_panel, or with a false one, falls back to in.has_pv.
C22_SolarChannel ==
    call.op = "preprocess_data"
    => /\ call.raised = "ok"
       /\ \A i \in DOMAIN call.homes_data.rows :
             LET record == call.homes_data.rows[i]
             IN call.has_solar_encoded[i] =
                  IF "has_solar_panel" \in DOMAIN record /\ record["has_solar_panel"] = 1
                  THEN 1
                  ELSE IF "in.has_pv" \in DOMAIN record /\ Lower(record["in.has_pv"]) = "yes"
                  THEN 1
                  ELSE 0

\* the request of the reply carries no monthly_usage
OmitsUsage == "monthly_usage" \notin DOMAIN response.data

\* C23: whenever the /api/find-twins handler calls predict_energy_usage or
\* find_similar_homes, ml_matcher.fit has completed successfully on the
\* loaded corpus, also when the data file was empty or loading raised.
C23_FitBeforeQuery ==
    (response.op = "find_twins"
     /\ (response.predict_called \/ response.find_called))
    => /\ model.fitted
       /\ Len(model.fit_X) = Length(HOMES_DATA)

\* C24: a failure raised by predict_energy_usage, find_similar_homes or
\* calculate_insights while a request is handled comes back as a failure
\* response (success false, the error message, HTTP 400), never as a
\* success with partial or default data.
C24_FailureSurfaced ==
    (response.op = "find_twins"
     /\ response.raised_in \in {"predict_energy_usage", "find_similar_homes",
                                "calculate_insights"})
    => /\ ~response.reply.success
       /\ response.reply.status = 400
       /\ response.reply.message \in {"ValueError", "TypeError", "NotFittedError",
                                      "IndexError", "KeyError"}
       /\ response.reply.twins = <<>>
       /\ response.reply.insights = NoInsightsValue

\* twins were found and calculate_insights raised
C24_Witness ==
    /\ response.op = "find_twins"
    /\ response.raised_in = "calculate_insights"
    /\ response.find_called
    /\ response.reply.status = 400

\* C26: within one request that omits monthly_usage, the query record
\* passed to predict_energy_usage carries the same matching features, the
\* solar flag included, as the one passed to find_similar_homes.
C26_SameQuery ==
    (response.op = "find_twins" /\ OmitsUsage
     /\ response.predict_called /\ response.find_called
     /\ response.predict_features # <<>> /\ response.find_features # <<>>)
    => response.predict_features = response.find_features

\* C27: the record handed to calculate_insights always has monthly_kwh set;
\* for a request that omits monthly_usage the recommendation is the
\* three-way comparison of the predicted usage with the twin average, and
\* the informational message comes only for a predicted usage of 0.
C27_PredictedCompared ==
    (response.op = "find_twins" /\ OmitsUsage /\ response.reply.success)
    => LET predicted == response.monthly_kwh
           avg == response.reply.insights.avg_twin_usage
           message == response.reply.insights.message
       IN /\ response.predict_called /\ response.insights_called
          /\ predicted # NaNResult
          /\ message = "expect" <=> predicted.num = 0
          /\ message = "higher"
               <=> FracLess(Fraction(6 * avg.num, 5 * avg.den), predicted)
          /\ message = "lower"
               <=> /\ predicted.num # 0
                   /\ FracLess(predicted, Fraction(4 * avg.num, 5 * avg.den))
          /\ message \in {"higher", "lower", "typical", "expect"}

\* a predicted usage went through the comparison
C27_Witness ==
    /\ response.op = "find_twins" /\ OmitsUsage /\ response.reply.success
    /\ response.predict_called
    /\ response.reply.insights.message \in {"higher", "lower", "typical"}
    /\ response.reply.twins # <<>>

\* C25: after fit(corpus2) following fit(corpus1), label_encoders, scaler
\* and index depend only on corpus2: they are those of a new matcher fitted
\* on corpus2, and no encoder fitted on corpus1 survives.
C25_RefitReplaces ==
    (call.op = "fit" /\ call.raised = "ok")
    => /\ DOMAIN label_encoders
            = Range(categorical_features) \cap AsFrame(HOMES_DATA).columns
       /\ label_encoders = FittedEncoders(AsFrame(HOMES_DATA), <<>>)

\* C28: calculate_insights called with an empty twin sequence does not
\* raise: it returns insights whose common_heating is 'Unknown'.
C28_EmptyTwins ==
    (insights.op = "calculate_insights" /\ insights.similar_homes = <<>>)
    => /\ insights.raised = "ok"
       /\ insights.common_heating = "Unknown"

\* C29: load_model on a path that does not exist returns False and leaves
\* model, scaler and label_encoders unchanged; when it returns True all three
\* have been replaced together by the values save_model stored.
C29_LoadModel ==
    [][call'.op = "load_model"
       => /\ call'.returned <=> FileAt(call'.filepath).exists
          /\ ~call'.returned => loaded' = loaded
          /\ call'.returned
               => /\ loaded'.label_encoders = pickle_file.label_encoders
                  /\ loaded'.scaler = pickle_file.scaler
                  /\ loaded'.model = pickle_file.model]_vars

\* a matcher that holds a loaded model is asked to load a missing path
C29_Witness ==
    /\ call.op = "load_model"
    /\ call.filepath = "missing.pkl"
    /\ ~call.returned
    /\ pickle_file.exists
    /\ loaded.model.fitted
    /\ loaded.label_encoders # <<>>

\* the URL at position i was asked in the run recorded in download
Asked(i) == i <= download.attempts

\* C30: download_sample_metadata tries the URLs in their listed order and
\* stops at the first that downloads and parses; a URL that fails never
\* prevents the next from being tried; without a non-empty dataset it
\* returns fallback data of num_samples (or 1000) records; on every return
\* the temporary file no longer exists.
C30_Download ==
    download.op = "download_sample_metadata"
    => /\ \A i \in DOMAIN metadata_urls :
             Asked(i) <=> \A j \in 1..(i - 1) : download.outcomes[j].step # "parsed"
       /\ download.kind = "fallback"
            <=> \A i \in DOMAIN metadata_urls :
                   Asked(i) => ~(/\ download.outcomes[i].step = "parsed"
                                 /\ download.outcomes[i].rows > 0)
       /\ download.kind = "fallback"
            => download.records = IF download.num_samples \in {None, 0} THEN 1000
                                  ELSE download.num_samples
       /\ ~download.temp_exists

====
